---- MODULE Spec2Model ----
(***************************************************************************)
(* Model of the LRU cache of eviction.go: a map from keys to list elements *)
(* (cache), a recency list (lru, front = most recently used), a size       *)
(* counter (curr_size) and a capacity (max_size), guarded by one mutex.    *)
(*                                                                         *)
(* A *list.Element is modelled by an element id; c.items is the heap that  *)
(* maps the id of every element of the list to its *cacheItem.             *)
(***************************************************************************)
EXTENDS Integers, Sequences, FiniteSets, TLC

\* ---------------------------------------------------------------- bounds
MaxCap == 2
MaxOps == 4

\* ---------------------------------------------------------------- inputs
KeyNames == <<"a", "b", "c">>
Keys == {KeyNames[i] : i \in 1..Len(KeyNames)}
Vals == {1, 10}
Capacities == -1..MaxCap
Threads == {"t1", "t2"}
MainThread == "t1"

Nil == 0
NoKey == ""
Free == "free"

Min(a, b) == IF a <= b THEN a ELSE b
Max(a, b) == IF a >= b THEN a ELSE b

VARIABLES c, lock, pc, op, ref, hist, keysSet

vars == <<c, lock, pc, op, ref, hist, keysSet>>

\* ------------------------------------------------- container/list
Elems(l) == {l[i] : i \in 1..Len(l)}

Without(l, e) == SelectSeq(l, LAMBDA x : x # e)

\* l.MoveToFront(e): nothing if e is not in l or already at the front
MoveToBack(l, e) ==
    IF e \notin Elems(l) THEN l ELSE Without(l, e) \o <<e>>
MoveToFront(l, e) ==
    IF e \notin Elems(l) \/ l[1] = e THEN l ELSE <<e>> \o Without(l, e)

\* l.PushFront(v): the new element goes first
PushBack(l, e) == l \o <<e>>
PushFront(l, e) == <<e>> \o l

\* l.Remove(e): nothing if e is not an element of l
Remove(l, e) == Without(l, e)

\* l.Back(): the last element, or nil (0) for an empty list
BackFront(l) == IF Len(l) = 0 THEN 0 ELSE l[1]
Back(l) == IF Len(l) = 0 THEN 0 ELSE l[Len(l)]

\* the element a PushFront allocates: the first id no live element has
NewElem(items) ==
    CHOOSE n \in 1..(Cardinality(DOMAIN items) + 1) :
        /\ n \notin DOMAIN items
        /\ \A m \in 1..(n - 1) : m \in DOMAIN items

\* ------------------------------------------------- maps
EmptyMap == [x \in {} |-> 0]
MapPut(f, k, v) == [x \in DOMAIN f \cup {k} |-> IF x = k THEN v ELSE f[x]]
MapDel(f, k) == [x \in DOMAIN f \ {k} |-> f[x]]

\* ------------------------------------------------- Cache
NewCache(size) ==
    [max_size |-> size, curr_size |-> 0, cache |-> EmptyMap,
     lru |-> <<>>, items |-> EmptyMap]

\* removeElement: unlink e, delete its key from the map, decrement
removeElementNoDec(cc, e) ==
    IF e \in DOMAIN cc.items
    THEN [cc EXCEPT !.lru = Remove(cc.lru, e),
                    !.cache = MapDel(cc.cache, cc.items[e].key),
                    !.items = MapDel(cc.items, e)]
    ELSE cc
removeElementKeepKey(cc, e) ==
    IF e \in DOMAIN cc.items
    THEN [cc EXCEPT !.lru = Remove(cc.lru, e),
                    !.items = MapDel(cc.items, e),
                    !.curr_size = cc.curr_size - 1]
    ELSE [cc EXCEPT !.curr_size = cc.curr_size - 1]
removeElement(cc, e) ==
    IF e \in DOMAIN cc.items
    THEN [cc EXCEPT !.lru = Remove(cc.lru, e),
                    !.cache = MapDel(cc.cache, cc.items[e].key),
                    !.items = MapDel(cc.items, e),
                    !.curr_size = cc.curr_size - 1]
    ELSE [cc EXCEPT !.curr_size = cc.curr_size - 1]

\* removeLRU: nothing when curr_size is 0, else remove the back element
removeLRUNone(cc) == cc
removeLRU(cc) ==
    IF cc.curr_size = 0 THEN cc
    ELSE IF Back(cc.lru) # 0 THEN removeElement(cc, Back(cc.lru)) ELSE cc

\* Set, key present (lines 39-43): move to front, replace the value
SetExistingNoMove(cc, key, value) ==
    [cc EXCEPT !.items[cc.cache[key]].val = value]
SetExistingGrow(cc, key, value) ==
    [cc EXCEPT !.lru = MoveToFront(cc.lru, cc.cache[key]),
               !.items[cc.cache[key]].val = value,
               !.curr_size = cc.curr_size + 1]
SetExistingKeepVal(cc, key, value) ==
    [cc EXCEPT !.lru = MoveToFront(cc.lru, cc.cache[key])]
SetExisting(cc, key, value) ==
    [cc EXCEPT !.lru = MoveToFront(cc.lru, cc.cache[key]),
               !.items[cc.cache[key]].val = value]

\* Set, lines 46-48: at capacity, remove the LRU item
SetEvictEarly(cc) ==
    IF cc.curr_size + 1 >= cc.max_size THEN removeLRU(cc) ELSE cc
SetEvictStrict(cc) ==
    IF cc.curr_size > cc.max_size THEN removeLRU(cc) ELSE cc
SetEvict(cc) ==
    IF cc.curr_size >= cc.max_size THEN removeLRU(cc) ELSE cc

\* Set, lines 51-53: add the new item
SetAdd(cc, key, value) ==
    LET e == NewElem(cc.items) IN
    [cc EXCEPT !.lru = PushFront(cc.lru, e),
               !.items = MapPut(cc.items, e, [key |-> key, val |-> value]),
               !.cache = MapPut(cc.cache, key, e),
               !.curr_size = cc.curr_size + 1]

Set(cc, key, value) ==
    IF key \in DOMAIN cc.cache
    THEN SetExisting(cc, key, value)
    ELSE SetAdd(SetEvict(cc), key, value)

\* Get: on a hit move to front and return (val, true), else (nil, false)
GetNoMove(cc, key) ==
    IF key \in DOMAIN cc.cache
    THEN [cache |-> cc, val |-> cc.items[cc.cache[key]].val, ok |-> TRUE]
    ELSE [cache |-> cc, val |-> Nil, ok |-> FALSE]
GetMissTouch(cc, key) ==
    IF key \in DOMAIN cc.cache
    THEN [cache |-> [cc EXCEPT !.lru = MoveToFront(cc.lru, cc.cache[key])],
          val |-> cc.items[cc.cache[key]].val, ok |-> TRUE]
    ELSE [cache |-> [cc EXCEPT !.lru = IF Len(cc.lru) = 0 THEN cc.lru
                                       ELSE MoveToFront(cc.lru, Back(cc.lru))],
          val |-> Nil, ok |-> FALSE]
Get(cc, key) ==
    IF key \in DOMAIN cc.cache
    THEN [cache |-> [cc EXCEPT !.lru = MoveToFront(cc.lru, cc.cache[key])],
          val |-> cc.items[cc.cache[key]].val, ok |-> TRUE]
    ELSE [cache |-> cc, val |-> Nil, ok |-> FALSE]

\* Len
CacheLenCap(cc) == cc.max_size
CacheLen(cc) == cc.curr_size

\* Clear
ClearKeepMap(cc) == [cc EXCEPT !.curr_size = 0, !.lru = <<>>]
ClearKeepSize(cc) ==
    [cc EXCEPT !.cache = EmptyMap, !.lru = <<>>, !.items = EmptyMap]
Clear(cc) ==
    [cc EXCEPT !.curr_size = 0, !.cache = EmptyMap,
               !.lru = <<>>, !.items = EmptyMap]

\* ------------------------------------------------- derived views
Present(cc) == DOMAIN cc.cache
\* keys of the recency list, front to back
Order(cc) == [i \in 1..Len(cc.lru) |-> cc.items[cc.lru[i]].key]

\* ------------------------------------------------- calls
Call(name, key, value) == [name |-> name, key |-> key, val |-> value]
SetCalls == {Call("Set", k, v) : k \in Keys, v \in Vals}
GetCalls == {Call("Get", k, Nil) : k \in Keys}

\* a completed call with what it saw: Get's (val, ok), Len's size, and for
\* Set the ok of its map lookup (line 39: the key was already present)
Done(call, val, ok) ==
    [name |-> call.name, key |-> call.key, val |-> call.val,
     res |-> val, ok |-> ok]
NoCall == Done(Call("none", NoKey, Nil), Nil, TRUE)

Init ==
    /\ c \in {NewCache(n) : n \in Capacities}
    /\ ref = c
    /\ lock = Free
    /\ pc = [t \in Threads |-> "idle"]
    /\ op = [t \in Threads |-> NoCall]
    /\ hist = <<>>
    /\ keysSet = {}

\* ------------------------------------------------- one caller (main)
Quiet == lock = Free /\ \A t \in Threads : pc[t] = "idle"

DoSet(key, value) ==
    /\ Quiet /\ Len(hist) < MaxOps
    /\ c' = Set(c, key, value)
    /\ ref' = c'
    /\ hist' = Append(hist, Done(Call("Set", key, value), Nil,
                                 key \in DOMAIN c.cache))
    /\ keysSet' = keysSet \cup {key}
    /\ UNCHANGED <<lock, pc, op>>

DoGet(key) ==
    /\ Quiet /\ Len(hist) < MaxOps
    /\ LET r == Get(c, key) IN
          /\ c' = r.cache
          /\ hist' = Append(hist, Done(Call("Get", key, Nil), r.val, r.ok))
    /\ ref' = c'
    /\ UNCHANGED <<lock, pc, op, keysSet>>

DoLen ==
    /\ Quiet /\ Len(hist) < MaxOps
    /\ hist' = Append(hist, Done(Call("Len", NoKey, Nil), CacheLen(c), TRUE))
    /\ UNCHANGED <<c, ref, lock, pc, op, keysSet>>

DoClear ==
    /\ Quiet /\ Len(hist) < MaxOps
    /\ c' = Clear(c)
    /\ ref' = c'
    /\ hist' = Append(hist, Done(Call("Clear", NoKey, Nil), Nil, TRUE))
    /\ keysSet' = {}
    /\ UNCHANGED <<lock, pc, op>>

Next ==
    \/ \E k \in Keys, v \in Vals : DoSet(k, v)
    \/ \E k \in Keys : DoGet(k)
    \/ DoLen
    \/ DoClear

Spec == Init /\ [][Next]_vars

\* ------------------------------------------------- concurrent callers
\* pc: idle -> lock -> body [-> evict -> add] -> unlock -> idle
Apply(cc, call) ==
    CASE call.name = "Set" -> Set(cc, call.key, call.val)
      [] call.name = "Get" -> Get(cc, call.key).cache
      [] call.name = "Clear" -> Clear(cc)
      [] OTHER -> cc

Result(cc, call) ==
    CASE call.name = "Get" -> <<Get(cc, call.key).val, Get(cc, call.key).ok>>
      [] call.name = "Set" -> <<Nil, call.key \in DOMAIN cc.cache>>
      [] call.name = "Len" -> <<CacheLen(cc), TRUE>>
      [] OTHER -> <<Nil, TRUE>>

\* a thread calls a public method
Invoke(t, call) ==
    /\ pc[t] = "idle"
    /\ pc' = [pc EXCEPT ![t] = "lock"]
    /\ op' = [op EXCEPT ![t] = Done(call, Nil, TRUE)]
    /\ UNCHANGED <<c, lock, ref, hist, keysSet>>

\* c.lock.Lock(): blocks until the mutex is free
LockNoWait(t) ==
    /\ pc[t] = "lock"
    /\ lock' = t
    /\ pc' = [pc EXCEPT ![t] = "body"]
    /\ UNCHANGED <<c, op, ref, hist, keysSet>>
Lock(t) ==
    /\ pc[t] = "lock"
    /\ lock = Free
    /\ lock' = t
    /\ pc' = [pc EXCEPT ![t] = "body"]
    /\ UNCHANGED <<c, op, ref, hist, keysSet>>

\* Set, lines 39-43
StepSetLookup(t) ==
    /\ pc[t] = "body" /\ op[t].name = "Set"
    /\ IF op[t].key \in DOMAIN c.cache
       THEN /\ c' = SetExisting(c, op[t].key, op[t].val)
            /\ pc' = [pc EXCEPT ![t] = "unlock"]
            /\ keysSet' = keysSet \cup {op[t].key}
       ELSE /\ pc' = [pc EXCEPT ![t] = "evict"]
            /\ UNCHANGED <<c, keysSet>>
    /\ op' = [op EXCEPT ![t].ok = op[t].key \in DOMAIN c.cache]
    /\ UNCHANGED <<lock, ref, hist>>

\* Set, lines 46-48
StepSetEvict(t) ==
    /\ pc[t] = "evict"
    /\ c' = SetEvict(c)
    /\ pc' = [pc EXCEPT ![t] = "add"]
    /\ UNCHANGED <<lock, op, ref, hist, keysSet>>

\* Set, lines 51-53
StepSetAdd(t) ==
    /\ pc[t] = "add"
    /\ c' = SetAdd(c, op[t].key, op[t].val)
    /\ pc' = [pc EXCEPT ![t] = "unlock"]
    /\ keysSet' = keysSet \cup {op[t].key}
    /\ UNCHANGED <<lock, op, ref, hist>>

StepGet(t) ==
    /\ pc[t] = "body" /\ op[t].name = "Get"
    /\ c' = Get(c, op[t].key).cache
    /\ op' = [op EXCEPT ![t].res = Get(c, op[t].key).val,
                        ![t].ok = Get(c, op[t].key).ok]
    /\ pc' = [pc EXCEPT ![t] = "unlock"]
    /\ UNCHANGED <<lock, ref, hist, keysSet>>

StepLen(t) ==
    /\ pc[t] = "body" /\ op[t].name = "Len"
    /\ op' = [op EXCEPT ![t].res = CacheLen(c)]
    /\ pc' = [pc EXCEPT ![t] = "unlock"]
    /\ UNCHANGED <<c, lock, ref, hist, keysSet>>

StepClear(t) ==
    /\ pc[t] = "body" /\ op[t].name = "Clear"
    /\ c' = Clear(c)
    /\ keysSet' = {}
    /\ pc' = [pc EXCEPT ![t] = "unlock"]
    /\ UNCHANGED <<lock, op, ref, hist>>

\* the deferred c.lock.Unlock(), then the method returns; ref is the cache
\* of the serial execution in which the calls run in the order they return
UnlockNotOnEarlyReturn(t) ==
    /\ pc[t] = "unlock"
    /\ lock' = IF op[t].name = "Set" /\ op[t].ok THEN lock ELSE Free
    /\ ref' = Apply(ref, op[t])
    /\ pc' = [pc EXCEPT ![t] = "idle"]
    /\ op' = [op EXCEPT ![t] = NoCall]
    /\ UNCHANGED <<c, hist, keysSet>>
Unlock(t) ==
    /\ pc[t] = "unlock"
    /\ lock' = Free
    /\ ref' = Apply(ref, op[t])
    /\ pc' = [pc EXCEPT ![t] = "idle"]
    /\ op' = [op EXCEPT ![t] = NoCall]
    /\ UNCHANGED <<c, hist, keysSet>>

Step(t) ==
    \/ Lock(t)
    \/ StepSetLookup(t)
    \/ StepSetEvict(t)
    \/ StepSetAdd(t)
    \/ StepGet(t)
    \/ StepLen(t)
    \/ StepClear(t)
    \/ Unlock(t)

\* the calls of thread t: any key, the value that names the writer
ValOf == [t \in Threads |-> IF t = MainThread THEN 1 ELSE 10]
CallsOf(t) ==
    {Call("Set", k, ValOf[t]) : k \in Keys} \cup GetCalls
        \cup {Call("Len", NoKey, Nil), Call("Clear", NoKey, Nil)}

ConcNext ==
    \/ \E t \in Threads : \E call \in CallsOf(t) : Invoke(t, call)
    \/ \E t \in Threads : Step(t)

ConcSpec == Init /\ [][ConcNext]_vars

\* the steps of a thread that holds the lock
Run(t) ==
    \/ StepSetLookup(t)
    \/ StepSetEvict(t)
    \/ StepSetAdd(t)
    \/ StepGet(t)
    \/ StepLen(t)
    \/ StepClear(t)
    \/ Unlock(t)

\* ------------------------------------------------- disjoint-key workers
\* each thread sets and gets only its own keys (every other key of KeyNames)
KeysOf(t) ==
    {KeyNames[i] : i \in {j \in 1..Len(KeyNames) :
                              (j % 2 = 1) <=> (t = MainThread)}}
WorkOf(t) ==
    {Call("Set", k, ValOf[t]) : k \in KeysOf(t)}
        \cup {Call("Get", k, Nil) : k \in KeysOf(t)}

DisjointNext ==
    \/ \E t \in Threads : \E call \in WorkOf(t) : Invoke(t, call)
    \/ \E t \in Threads : Lock(t)
    \/ \E t \in Threads : StepSetLookup(t)
    \/ \E t \in Threads : StepSetEvict(t)
    \/ \E t \in Threads : StepSetAdd(t)
    \/ \E t \in Threads : StepGet(t)
    \/ \E t \in Threads : Unlock(t)

DisjointSpec == Init /\ [][DisjointNext]_vars

\* ------------------------------------------------- fair scheduling
\* Every method is called, Set and Get by each thread on its own keys.
FairCallsOf(t) ==
    WorkOf(t) \cup {Call("Len", NoKey, Nil), Call("Clear", NoKey, Nil)}

FairNext ==
    \/ \E t \in Threads : \E call \in FairCallsOf(t) : Invoke(t, call)
    \/ \E t \in Threads : Lock(t)
    \/ \E t \in Threads : Run(t)

\* Scheduling: a goroutine that can run does run (weak fairness of the steps
\* inside a method), and sync.Mutex hands the lock to a waiter that keeps
\* losing it (starvation mode), so a thread that can lock again and again
\* does lock (strong fairness of Lock).
FairSpec ==
    /\ Init /\ [][FairNext]_vars
    /\ \A t \in Threads : WF_vars(Run(t)) /\ SF_vars(Lock(t))

\* ------------------------------------------------- properties
\* the last completed call and the one before it
Last == hist[Len(hist)]
Prev == hist[Len(hist) - 1]
\* the call that a step completes
Completes(name) ==
    /\ Len(hist') = Len(hist) + 1
    /\ hist'[Len(hist')].name = name
\* the calls so far are exactly these methods on these keys
Called(names, keys) ==
    /\ Len(hist) = Len(names)
    /\ \A i \in 1..Len(names) : hist[i].name = names[i] /\ hist[i].key = keys[i]

\* index, recency list and size describe the same entries
Consistent(cc) ==
    /\ cc.curr_size = Cardinality(DOMAIN cc.cache)
    /\ cc.curr_size = Len(cc.lru)
    /\ DOMAIN cc.items = Elems(cc.lru)
    /\ \A i, j \in 1..Len(cc.lru) : cc.lru[i] = cc.lru[j] => i = j
    /\ \A k \in DOMAIN cc.cache :
          cc.cache[k] \in Elems(cc.lru) /\ cc.items[cc.cache[k]].key = k
    /\ \A e \in Elems(cc.lru) :
          cc.items[e].key \in DOMAIN cc.cache /\ cc.cache[cc.items[e].key] = e

\* C1: with a positive capacity, after every operation 0 <= Len() <= capacity,
\* and every Len() call returned a size within these limits
C1_CapacityInvariant ==
    c.max_size > 0 =>
        /\ 0 <= CacheLen(c) /\ CacheLen(c) <= c.max_size
        /\ \A i \in 1..Len(hist) :
              hist[i].name = "Len" => hist[i].res \in 0..c.max_size
\* a full cache that has been offered more keys than it holds, then Len()
C1_Witness ==
    /\ c.max_size > 0
    /\ Cardinality(keysSet) > c.max_size
    /\ Len(hist) > 0 /\ Last.name = "Len" /\ Last.res = c.max_size

\* the first n calls set n distinct keys
FirstSets(n) ==
    /\ Len(hist) >= n
    /\ \A i \in 1..n : hist[i].name = "Set"
    /\ \A i, j \in 1..n : hist[i].key = hist[j].key => i = j

\* C2: capacity N >= 1, N+1 distinct keys set in order on the empty cache:
\* the first key is gone (Get reports found=false), the other N are found
C2_LRUOrder ==
    \A n \in 1..MaxCap :
        (c.max_size = n /\ FirstSets(n + 1)) =>
            /\ Len(hist) = n + 1 =>
                  /\ ~Get(c, hist[1].key).ok
                  /\ \A i \in 2..(n + 1) : Get(c, hist[i].key).ok
                  /\ CacheLen(c) = n
            /\ (Len(hist) >= n + 2 /\ hist[n + 2].name = "Get"
                    /\ \E i \in 1..(n + 1) : hist[i].key = hist[n + 2].key) =>
                  (hist[n + 2].ok <=> hist[n + 2].key # hist[1].key)
\* capacity 2, three distinct keys set, then a Get of the first one misses
C2_Witness ==
    /\ c.max_size = 2 /\ FirstSets(3) /\ Len(hist) = 4
    /\ Last.name = "Get" /\ Last.key = hist[1].key /\ ~Last.ok

\* C3: a Get that hits k puts k at the front of the recency list; with a
\* capacity of 2 or more a following Set of a new key leaves k in the cache;
\* capacity 2, Set(a); Set(b); Get(a); Set(c) with any values evicts b and
\* keeps a
C3_GetRefreshes ==
    /\ (Len(hist) >= 1 /\ Last.name = "Get" /\ Last.ok) =>
          Order(c)[1] = Last.key
    /\ (Len(hist) >= 2 /\ Prev.name = "Get" /\ Prev.ok
            /\ Last.name = "Set" /\ ~Last.ok /\ c.max_size >= 2) =>
          Prev.key \in Present(c)
    /\ (c.max_size = 2
            /\ Called(<<"Set", "Set", "Get", "Set">>, <<"a", "b", "a", "c">>)) =>
          (Present(c) = {"a", "c"} /\ ~Get(c, "b").ok)
C3_Witness ==
    /\ c.max_size = 2
    /\ Called(<<"Set", "Set", "Get", "Set">>, <<"a", "b", "a", "c">>)
    /\ hist[1].val = 1 /\ hist[3].ok /\ hist[3].res = 1
    /\ Present(c) = {"a", "c"}

\* C4: a Set of a present key k replaces the value and puts k at the front;
\* with a capacity of 2 or more a following Set of a new key leaves k in the
\* cache with the new value; capacity 2, Set(a,1); Set(b); Set(a,10); Set(c)
\* with any values for b and c evicts b, and Get(a) is (10, true)
C4_SetRefreshes ==
    /\ (Len(hist) >= 1 /\ Last.name = "Set" /\ Last.ok) =>
          /\ Order(c)[1] = Last.key
          /\ Get(c, Last.key).ok /\ Get(c, Last.key).val = Last.val
    /\ (Len(hist) >= 2 /\ Prev.name = "Set" /\ Prev.ok
            /\ Last.name = "Set" /\ ~Last.ok /\ c.max_size >= 2) =>
          (Get(c, Prev.key).ok /\ Get(c, Prev.key).val = Prev.val)
    /\ (c.max_size = 2
            /\ Called(<<"Set", "Set", "Set", "Set">>, <<"a", "b", "a", "c">>)
            /\ hist[1].val = 1 /\ hist[3].val = 10) =>
          /\ Present(c) = {"a", "c"} /\ ~Get(c, "b").ok
          /\ Get(c, "a").ok /\ Get(c, "a").val = 10
C4_Witness ==
    /\ c.max_size = 2
    /\ Called(<<"Set", "Set", "Set", "Set">>, <<"a", "b", "a", "c">>)
    /\ hist[1].val = 1 /\ hist[3].val = 10 /\ hist[3].ok
    /\ Get(c, "a").val = 10 /\ "b" \notin Present(c)

\* C5: a Set of a key that is already present leaves Len(), the set of
\* present keys and the value of every other key as they were
C5_SetPresentKeepsSize ==
    [][(Completes("Set") /\ hist'[Len(hist')].ok) =>
          /\ CacheLen(c') = CacheLen(c)
          /\ Present(c') = Present(c)
          /\ \A k \in Present(c) \ {hist'[Len(hist')].key} :
                Get(c', k).val = Get(c, k).val]_vars
\* a full cache of two whose least recently used key has just been set again
C5_Witness ==
    /\ Len(hist) >= 3 /\ Last.name = "Set" /\ Last.ok
    /\ c.max_size = 2 /\ CacheLen(c) = 2
    /\ Prev.name = "Set" /\ ~Prev.ok /\ Last.val # Prev.val

\* C6: right after Clear() Len() is 0, the map and the list are empty and
\* every key misses; a Len() or Get right after Clear() returned 0 / not found
C6_ClearResets ==
    /\ (Len(hist) >= 1 /\ Last.name = "Clear") =>
          /\ CacheLen(c) = 0
          /\ c.cache = EmptyMap /\ c.lru = <<>>
          /\ \A k \in Keys : ~Get(c, k).ok
    /\ \A i \in 2..Len(hist) :
          hist[i - 1].name = "Clear" =>
              /\ hist[i].name = "Len" => hist[i].res = 0
              /\ hist[i].name = "Get" => ~hist[i].ok
\* Set(k); Clear(); Get(k)
C6_Witness ==
    /\ Len(hist) >= 3 /\ hist[Len(hist) - 2].name = "Set"
    /\ Prev.name = "Clear"
    /\ Last.name = "Get" /\ Last.key = hist[Len(hist) - 2].key /\ ~Last.ok

\* C7: a Get of an absent key returns (nil, false) and changes nothing: size,
\* map and recency list are as before
C7_MissDoesNotMutate ==
    [][(Completes("Get") /\ ~hist'[Len(hist')].ok) =>
          /\ hist'[Len(hist')].res = Nil
          /\ c' = c
          /\ Order(c') = Order(c) /\ CacheLen(c') = CacheLen(c)]_vars
\* two misses in a row on a cache that holds two entries
C7_Witness ==
    /\ Len(hist) >= 4 /\ CacheLen(c) = 2
    /\ Last.name = "Get" /\ ~Last.ok
    /\ Prev.name = "Get" /\ ~Prev.ok

\* a thread is between its Lock() and its Unlock()
InCritical(t) == pc[t] \in {"body", "evict", "add", "unlock"}

\* C8: threads working on disjoint keys: once all calls have returned, Len()
\* is min(capacity, number of distinct keys set) and map, list and size
\* describe the same entries, all of them keys that were set
C8_DisjointKeys ==
    (Quiet /\ c.max_size >= 1) =>
        /\ CacheLen(c) = Min(c.max_size, Cardinality(keysSet))
        /\ Consistent(c)
        /\ Present(c) \subseteq keysSet
\* both threads have set all their keys, more keys than the cache holds
C8_Witness ==
    /\ Quiet /\ c.max_size = 2
    /\ \A t \in Threads : KeysOf(t) # {} /\ KeysOf(t) \subseteq keysSet
    /\ Cardinality(keysSet) > c.max_size
    /\ CacheLen(c) = 2

\* C9: at most one thread is inside a critical section, and it is the holder
\* of the lock; a call that enters finds map, list and size in agreement and
\* equal to the cache of the serial execution; when it leaves, its result and
\* the cache are those of running the whole call after the calls before it
C9_Serializable ==
    /\ \A t, u \in Threads : (InCritical(t) /\ InCritical(u)) => t = u
    /\ \A t \in Threads : InCritical(t) <=> lock = t
    /\ lock = Free => (c = ref /\ Consistent(c))
    /\ \A t \in Threads :
          /\ pc[t] = "body" => (c = ref /\ Consistent(c))
          /\ pc[t] = "unlock" =>
                /\ <<op[t].res, op[t].ok>> = Result(ref, op[t])
                /\ c = Apply(ref, op[t])
\* a Set has evicted and not yet added while the other thread waits to Get
C9_Witness ==
    \E t, u \in Threads :
        /\ t # u
        /\ pc[t] = "add" /\ c # ref /\ c.curr_size < ref.curr_size
        /\ pc[u] = "lock" /\ op[u].name = "Get"

\* ------------------------------------------------- timestamp reference
\* A reference cache kept beside the calls: for every live key the value of
\* its last Set and the time (index of the call) of its last touch. A Set of
\* a new key into a full reference drops the key touched longest ago.
RefEmpty == [ts |-> EmptyMap, val |-> EmptyMap]
RefLive(r) == DOMAIN r.ts
RefOldest(r) == CHOOSE k \in RefLive(r) : \A j \in RefLive(r) : r.ts[k] <= r.ts[j]
RefDrop(r, k) == [ts |-> MapDel(r.ts, k), val |-> MapDel(r.val, k)]
RefStep(r, call, now, cap) ==
    CASE call.name = "Set" ->
           LET room == IF call.key \notin RefLive(r)
                          /\ Cardinality(RefLive(r)) >= cap
                       THEN RefDrop(r, RefOldest(r)) ELSE r
           IN [ts |-> MapPut(room.ts, call.key, now),
               val |-> MapPut(room.val, call.key, call.val)]
      [] call.name = "Get" ->
           IF call.key \in RefLive(r)
           THEN [r EXCEPT !.ts = MapPut(r.ts, call.key, now)] ELSE r
      [] call.name = "Clear" -> RefEmpty
      [] OTHER -> r
RECURSIVE RefAfter(_, _, _)
RefAfter(h, n, cap) ==
    IF n = 0 THEN RefEmpty ELSE RefStep(RefAfter(h, n - 1, cap), h[n], n, cap)

\* C11: with a positive capacity Get(k) reports found exactly for the keys
\* that are live in the reference and returns the value of the last Set(k, .);
\* for every capacity a hit returns the value of the most recent Set of that
\* key and a miss returns (nil, false)
C11_GetMatchesReference ==
    /\ c.max_size >= 1 =>
          LET r == RefAfter(hist, Len(hist), c.max_size) IN
          \A k \in Keys :
              /\ Get(c, k).ok <=> k \in RefLive(r)
              /\ Get(c, k).ok => Get(c, k).val = r.val[k]
    /\ (c.max_size >= 1 /\ Len(hist) >= 1 /\ Last.name = "Get") =>
          LET r == RefAfter(hist, Len(hist) - 1, c.max_size) IN
          /\ Last.ok <=> Last.key \in RefLive(r)
          /\ Last.ok => Last.res = r.val[Last.key]
    /\ (Len(hist) >= 1 /\ Last.name = "Get") =>
          IF Last.ok
          THEN \E i \in 1..(Len(hist) - 1) :
                  /\ hist[i].name = "Set" /\ hist[i].key = Last.key
                  /\ hist[i].val = Last.res
                  /\ \A j \in (i + 1)..(Len(hist) - 1) :
                        /\ hist[j].name # "Clear"
                        /\ ~(hist[j].name = "Set" /\ hist[j].key = Last.key)
          ELSE Last.res = Nil
\* Set(k,1); Set(k,10); Get(k) returns (10, true)
C11_Witness ==
    /\ Len(hist) = 3 /\ Last.name = "Get" /\ Last.ok /\ Last.res = 10
    /\ hist[1].name = "Set" /\ hist[1].val = 1 /\ hist[1].key = Last.key
    /\ hist[2].name = "Set" /\ hist[2].ok /\ c.max_size >= 1

\* C12: between operations the keys of the map are the keys of the list
\* entries, each once, every handle points to the entry with its key, and
\* size = number of map keys = length of the list
C12_IndexOrderConsistent ==
    /\ Consistent(c)
    /\ \A i, j \in 1..Len(c.lru) : Order(c)[i] = Order(c)[j] => i = j
    /\ {Order(c)[i] : i \in 1..Len(c.lru)} = Present(c)
    /\ Len(c.lru) = Cardinality(Present(c)) /\ c.curr_size = Len(c.lru)
\* a full cache of two right after an eviction
C12_Witness ==
    /\ c.max_size = 2 /\ Len(c.lru) = 2 /\ Cardinality(keysSet) = 3
    /\ Len(hist) >= 1 /\ Last.name = "Set" /\ ~Last.ok

\* C13: with a positive capacity a Set of a new key into a full cache removes
\* exactly the back-of-list entry and leaves size = capacity; into a cache
\* that is not full it removes nothing and adds 1 to the size; no Set removes
\* more than one entry
C13_OneEvictionPerInsert ==
    [][Completes("Set") =>
          /\ Cardinality(Present(c) \ Present(c')) <= 1
          /\ (c.max_size >= 1 /\ ~hist'[Len(hist')].ok) =>
                IF c.curr_size = c.max_size
                THEN /\ Present(c) \ Present(c') = {Order(c)[Len(c.lru)]}
                     /\ Present(c') \ Present(c) = {hist'[Len(hist')].key}
                     /\ c'.curr_size = c.max_size
                ELSE /\ Present(c') = Present(c) \cup {hist'[Len(hist')].key}
                     /\ c'.curr_size = c.curr_size + 1]_vars
\* a Set of a new key has just evicted from a full cache of two, after a Set
\* that found room
C13_Witness ==
    /\ c.max_size = 2 /\ Len(hist) >= 3
    /\ Last.name = "Set" /\ ~Last.ok /\ Prev.name = "Set" /\ ~Prev.ok
    /\ Cardinality(keysSet) = 3 /\ c.curr_size = 2

\* C14: with a positive capacity the recency list, front to back, is the
\* reference's live keys by decreasing time of last touch (creation or
\* update by Set, hit by Get), and the key a Set evicts is the live key whose
\* last touch is oldest
C14_StrictLRU ==
    c.max_size >= 1 =>
        /\ LET r == RefAfter(hist, Len(hist), c.max_size) IN
              /\ {Order(c)[i] : i \in 1..Len(c.lru)} = RefLive(r)
              /\ Len(c.lru) = Cardinality(RefLive(r))
              /\ \A i, j \in 1..Len(c.lru) :
                    i < j => r.ts[Order(c)[i]] > r.ts[Order(c)[j]]
        /\ (Len(hist) >= 1 /\ Last.name = "Set" /\ ~Last.ok) =>
              LET before == RefAfter(hist, Len(hist) - 1, c.max_size) IN
              IF Cardinality(RefLive(before)) = c.max_size
              THEN /\ RefOldest(before) \notin Present(c)
                   /\ Present(c) = (RefLive(before) \ {RefOldest(before)})
                                       \cup {Last.key}
              ELSE Present(c) = RefLive(before) \cup {Last.key}
\* capacity 2: Set(k1); Set(k2); Get(k1); Set(k3) has evicted k2, touched
\* at time 2, not k1, touched at time 3
C14_Witness ==
    /\ c.max_size = 2 /\ Len(hist) = 4 /\ FirstSets(2)
    /\ hist[3].name = "Get" /\ hist[3].key = hist[1].key /\ hist[3].ok
    /\ Last.name = "Set" /\ ~Last.ok
    /\ Order(c) = <<Last.key, hist[1].key>>

\* C15: Len() returns the number of live entries and leaves size, map,
\* values and recency list as they were, so the back of the list (the next
\* key to evict) is the same after any number of Len() calls
C15_LenReadOnly ==
    [][Completes("Len") =>
          /\ hist'[Len(hist')].res = c.curr_size
          /\ hist'[Len(hist')].res = Cardinality(Present(c))
          /\ c' = c
          /\ Order(c') = Order(c)
          /\ \A k \in Present(c) : Get(c', k).val = Get(c, k).val]_vars
\* two Len() calls in a row on a cache that holds two entries
C15_Witness ==
    /\ Len(hist) = 4 /\ c.max_size = 2
    /\ Prev.name = "Len" /\ Prev.res = 2
    /\ Last.name = "Len" /\ Last.res = 2

\* C16: a thread that has returned does not hold the lock, the holder is
\* always a thread inside a method, the lock is only taken when it is free,
\* and under fair scheduling every call that was invoked returns
C16_LockReleasedAndProgress ==
    /\ [](\A t \in Threads : (pc[t] \in {"idle", "lock"}) => lock # t)
    /\ [](\A t \in Threads : lock = t => InCritical(t))
    /\ [][\A t \in Threads : (lock' = t /\ lock # t) => lock = Free]_vars
    /\ \A t \in Threads : (pc[t] # "idle") ~> (pc[t] = "idle")
\* a Set that found its key is about to return early while the other thread
\* waits for the lock
C16_Witness ==
    \E t, u \in Threads :
        /\ t # u
        /\ pc[t] = "unlock" /\ op[t].name = "Set" /\ op[t].ok /\ lock = t
        /\ pc[u] = "lock"

\* C17: with a positive capacity, right after any Set(k, v) the key k is in
\* the cache at the front of the recency list, and a Get(k) that follows at
\* once returns (v, true)
C17_SetNotSelfEvicted ==
    c.max_size >= 1 =>
        /\ (Len(hist) >= 1 /\ Last.name = "Set") =>
              /\ Last.key \in Present(c)
              /\ Order(c)[1] = Last.key
              /\ c.lru[1] = c.cache[Last.key]
              /\ Get(c, Last.key).ok /\ Get(c, Last.key).val = Last.val
        /\ (Len(hist) >= 2 /\ Prev.name = "Set"
                /\ Last.name = "Get" /\ Last.key = Prev.key) =>
              (Last.ok /\ Last.res = Prev.val)
\* capacity 1: Set(k1); Set(k2) into the full cache; Get(k2) hits
C17_Witness ==
    /\ c.max_size = 1 /\ Len(hist) = 3 /\ FirstSets(2)
    /\ Last.name = "Get" /\ Last.key = Prev.key
    /\ Last.ok /\ Last.res = Prev.val

\* the cache after the first n calls of h have run, in order, on cc
RECURSIVE RunFrom(_, _, _)
RunFrom(cc, h, n) ==
    IF n = 0 THEN cc ELSE Apply(RunFrom(cc, h, n - 1), h[n])
\* index of the last Clear() of h, 0 if there is none
LastClear(h) ==
    IF \E i \in 1..Len(h) : h[i].name = "Clear"
    THEN CHOOSE i \in 1..Len(h) :
            /\ h[i].name = "Clear"
            /\ \A j \in (i + 1)..Len(h) : h[j].name # "Clear"
    ELSE 0
\* cc and the results of the calls after the last Clear() of h are those of
\* running the same calls on a new cache of the same capacity
SameAsNew(cc, h) ==
    LET tail == SubSeq(h, LastClear(h) + 1, Len(h))
        fresh == NewCache(cc.max_size)
    IN  LastClear(h) > 0 =>
            /\ cc = RunFrom(fresh, tail, Len(tail))
            /\ \A j \in 1..Len(tail) :
                  <<tail[j].res, tail[j].ok>>
                      = Result(RunFrom(fresh, tail, j - 1), tail[j])

\* C18: no call changes the capacity, and after a Clear() the calls that
\* follow return what they return on a newly built cache of that capacity
\* and leave the same contents and recency order
C18_ClearLikeNew ==
    [][c'.max_size = c.max_size /\ SameAsNew(c', hist')]_vars
\* Set(k1); Clear(); Set(k2); Get(k1) misses as on a new cache
C18_Witness ==
    /\ Len(hist) = 4 /\ hist[1].name = "Set" /\ hist[2].name = "Clear"
    /\ hist[3].name = "Set" /\ hist[3].key # hist[1].key
    /\ Last.name = "Get" /\ Last.key = hist[1].key /\ ~Last.ok
    /\ c.curr_size = 1

\* the keys that Set calls found absent, latest last
NewKeySets == SelectSeq(hist, LAMBDA d : d.name = "Set" /\ ~d.ok)

\* C19: for every capacity, also 0 and negative ones, curr_size is never
\* negative and never above max(capacity, 1); with a capacity <= 0 the cache
\* holds nothing but the key of the most recent Set that found its key absent
C19_SizeBounds ==
    /\ 0 <= c.curr_size
    /\ c.curr_size <= Max(c.max_size, 1)
    /\ c.max_size <= 0 =>
          /\ Cardinality(Present(c)) <= 1
          /\ Present(c) # {} =>
                /\ Len(NewKeySets) >= 1
                /\ Present(c) = {NewKeySets[Len(NewKeySets)].key}
\* capacity -1: the second new key has replaced the first, the size is 1
C19_Witness ==
    /\ c.max_size = -1 /\ FirstSets(2) /\ Len(hist) = 3
    /\ Last.name = "Len" /\ Last.res = 1
    /\ Present(c) = {hist[2].key}

\* C10: a cache built with capacity <= 0 is disabled: no Set makes its size
\* exceed the bound, it never holds an entry
C10_NonPositiveCapacity ==
    c.max_size <= 0 => (CacheLen(c) <= Max(c.max_size, 0) /\ Present(c) = {})

====
